---- MODULE Spec2Model ----
(***************************************************************************)
(* A model of MetadataFiles (plugins/importers/yum/repomd/metadata.py):    *)
(* the stateful downloader, parser, validator and indexer of the metadata  *)
(* files of a Yum repository.  One session object works on one destination *)
(* directory; every public method is one action, and any method may be     *)
(* called at any time.                                                     *)
(***************************************************************************)
EXTENDS Integers, Sequences, FiniteSets, TLC

VARIABLES
    repo,            \* the remote repository behind repo_url (input, fixed)
    disk,            \* the local file system: path -> file
    failed_reports,  \* self.event_listener.failed_reports
    revision,        \* self.revision
    metadata,        \* self.metadata: name -> file_info
    dbs,             \* self.dbs: filename -> db_filename
    result,          \* the last call: its name, its arguments, how it ended
    cur,             \* the session that has the turn: the fields above are its own
    peer,            \* the fields of the session that waits for its turn
    cancelled        \* the embedding system has asked the session to stop

vars == <<repo, disk, failed_reports, revision, metadata, dbs, result, cur, peer, cancelled>>

-----------------------------------------------------------------------------
(* Bounds of the model *)

\* the fetcher fails at most this many requests in a run
MaxReports == 1

-----------------------------------------------------------------------------
(* Values *)

\* Python's None, for string-valued fields
None == "None"

\* Python's None, for the integer-valued size fields
NoSize == -1

\* Python's None, for a path (a sequence of segments)
NoPath == <<>>

EmptyMap == [x \in {} |-> x]

Put(m, k, v) == [x \in DOMAIN m \cup {k} |-> IF x = k THEN v ELSE m[x]]

REPOMD_FILE_NAME == "repomd.xml"

REPOMD_URL_RELATIVE_PATH == <<"repodata", REPOMD_FILE_NAME>>

repo_url == "http://host/repo/"

\* the sessions the embedding system runs, and the dst_dir of each
Sessions == {"a", "b"}

SessionDir(session) == "/sync/" \o session

\* one destination directory for every session
dst_dir_shared == SessionDir("a")

\* self.dst_dir of the session that has the turn
dst_dir == SessionDir(cur)

\* '/'.join(segments)
RECURSIVE JoinSegments(_)
JoinSegments(p) ==
    IF Len(p) = 0 THEN ""
    ELSE IF Len(p) = 1 THEN p[1]
    ELSE p[1] \o "/" \o JoinSegments(Tail(p))

\* urljoin(base, relative_path), for a base ending in '/' and a relative path
urljoin(base, relative_path) == base \o JoinSegments(relative_path)

\* os.path.join(directory, name)
path_join(directory, name) == directory \o "/" \o name

\* relative_path.rsplit('/', 1)[-1]
rsplit_last(relative_path) == relative_path[Len(relative_path)]

\* the file names that contain the substring 'sqlite'
SqliteNames == {"primary.sqlite.bz2"}

\* relative_path.find('sqlite') >= 0
find_sqlite(relative_path) ==
    \E i \in 1..Len(relative_path) : relative_path[i] \in SqliteNames

\* filelists.METADATA_FILE_NAME and other.METADATA_FILE_NAME
filelists_METADATA_FILE_NAME == "filelists"

other_METADATA_FILE_NAME == "other"

\* the names hashlib binds to hash constructors that take no argument
HashConstructors == {"md5", "sha1", "sha224", "sha256", "sha384", "sha512"}

\* the attributes of the hashlib module a repomd.xml can name
HashlibAttrs == HashConstructors \cup {"new", "algorithms"}

\* hash_obj.hexdigest() of a file's content under a hash constructor
hexdigest(algorithm, content) == algorithm \o ":" \o content

\* int(text) of a size element; a text outside the table raises ValueError
IntTexts == {"0", "1", "10"}

\* a conversion that reads the digits in base 8: int(text, 8)
int_octal(text) == CASE text = "0" -> 0 [] text = "1" -> 1 [] text = "10" -> 8

int(text) == CASE text = "0" -> 0 [] text = "1" -> 1 [] text = "10" -> 10

FILE_INFO_SKEL ==
    [name |-> None,
     relative_path |-> NoPath,
     checksum |-> [algorithm |-> None, hex_digest |-> None],
     size |-> NoSize,
     timestamp |-> None,
     open_checksum |-> [algorithm |-> None, hex_digest |-> None],
     open_size |-> NoSize,
     local_path |-> None]      \* None: the key 'local_path' is not in the dict

-----------------------------------------------------------------------------
(* The remote repository: a repomd.xml document and the files it serves *)

PRIMARY_PATH == <<"repodata", "primary.xml.gz">>

FILELISTS_PATH == <<"repodata", "filelists.xml.gz">>

OTHER_PATH == <<"repodata", "other.xml.gz">>

SQLITE_PATH == <<"repodata", "primary.sqlite.bz2">>

GROUP_GZ_PATH == <<"repodata", "comps.xml.gz">>

GROUP_PATH == <<"repodata", "comps.xml">>

\* a <data> element of repomd.xml: its type attribute, the href of its
\* <location>, its <checksum> (type attribute and text) and the text of its
\* <size>; None where the attribute or the child element is missing; location
\* says whether the element has a <location> child at all
DataElement(type, href, algorithm, hex_digest, size_text) ==
    [type |-> type, location |-> TRUE, href |-> href,
     checksum |-> [algorithm |-> algorithm, hex_digest |-> hex_digest],
     size |-> size_text, timestamp |-> None,
     open_checksum |-> [algorithm |-> None, hex_digest |-> None],
     open_size |-> None]

\* a metadata file: its length in bytes, its bytes, and the package records
\* the bytes decode to (none for a file that is not a detail file)
File(bytes, content, packages) ==
    [type |-> "file", size |-> bytes, content |-> content, packages |-> packages]

\* the packages of the repository, by pkgid
Pkgs == {"a1", "a2", "b1"}

\* the unit key of a package as the detail files state it: a1 and a2 are the
\* same package under two checksums
UnitKeyOf(pkgid) ==
    CASE pkgid = "a1" ->
           <<<<"name", "a">>, <<"version", "1">>, <<"release", "1">>,
             <<"arch", "x86_64">>, <<"checksum", "deadbeef">>,
             <<"checksumtype", "sha256">>>>
      [] pkgid = "a2" ->
           <<<<"name", "a">>, <<"version", "1">>, <<"release", "1">>,
             <<"arch", "x86_64">>, <<"checksum", "cafebabe">>,
             <<"checksumtype", "sha1">>>>
      [] pkgid = "b1" ->
           <<<<"name", "b">>, <<"version", "1">>, <<"release", "1">>,
             <<"arch", "x86_64">>, <<"checksum", "0badf00d">>,
             <<"checksumtype", "sha256">>>>

\* the package lists of the detail files served: one package, two packages
\* with different keys and two packages with the same key
DetailLists == {<<"b1">>, <<"a1", "b1">>, <<"a1", "a2">>}

Front(s) == IF Len(s) = 0 THEN s ELSE SubSeq(s, 1, Len(s) - 1)

\* the bytes of a detail file that lists the packages s
RECURSIVE ContentOf(_)
ContentOf(s) == IF Len(s) = 0 THEN "" ELSE Head(s) \o ContentOf(Tail(s))

\* the declared size texts and the sizes in bytes of the files served
\* against them: around each multiple of 1024
SizeCases ==
    {<<"0", 0>>, <<"0", 1023>>, <<"0", 1024>>,
     <<"1", 1023>>, <<"1", 1024>>, <<"1", 2047>>, <<"1", 2048>>,
     <<"10", 10>>, <<"10", 10239>>, <<"10", 10240>>, <<"10", 10241>>,
     <<"10", 11263>>, <<"10", 11264>>, <<None, 1024>>}

\* the checksum types a repomd.xml names
AlgNames == HashlibAttrs \cup {"crc32"}

\* repositories that publish a primary file only: a declared size against an
\* actual size, and every declared algorithm against genuine ("c1") and
\* tampered ("c2") bytes
VerifyRepos ==
    {[doc |-> [syntax_error |-> None, revision |-> "1",
               data |-> <<DataElement("primary", PRIMARY_PATH, "sha256",
                                      hexdigest("sha256", "c1"), sc[1])>>],
      files |-> (PRIMARY_PATH :> File(sc[2], "c1", <<>>))] : sc \in SizeCases}
    \cup
    {[doc |-> [syntax_error |-> None, revision |-> "1",
               data |-> <<DataElement("primary", PRIMARY_PATH, a,
                                      IF a = None THEN None ELSE a \o ":c1", "10")>>],
      files |-> (PRIMARY_PATH :> File(10241, c, <<>>))] :
        a \in AlgNames \cup {None}, c \in {"c1", "c2"}}

DetailElement(type, href, s) ==
    DataElement(type, href, "sha256", hexdigest("sha256", ContentOf(s)), "1")

DetailFiles(fl, ot) ==
    PRIMARY_PATH :> File(1024, "c1", <<>>) @@
    FILELISTS_PATH :> File(1500, ContentOf(fl), fl) @@
    OTHER_PATH :> File(2047, ContentOf(ot), ot)

\* repositories that publish primary, filelists and other: the two detail
\* files list the same packages, or other lacks the last one
IndexRepos ==
    {[doc |-> [syntax_error |-> None, revision |-> None,
               data |-> <<DataElement("primary", PRIMARY_PATH, "sha256",
                                      hexdigest("sha256", "c1"), "1"),
                          DetailElement(filelists_METADATA_FILE_NAME, FILELISTS_PATH, fo[1]),
                          DetailElement(other_METADATA_FILE_NAME, OTHER_PATH, fo[2])>>],
      files |-> DetailFiles(fo[1], fo[2])] :
        fo \in {<<fl, fl>> : fl \in DetailLists} \cup
               {<<fl, Front(fl)>> : fl \in {<<"b1">>, <<"a1", "b1">>}}}

\* repositories that list a sqlite sidecar, no other file, or nothing
OddRepos ==
    {[doc |-> [syntax_error |-> None, revision |-> "1",
               data |-> <<DataElement("primary", PRIMARY_PATH, "sha256",
                                      hexdigest("sha256", "c1"), "1"),
                          DataElement("primary_db", SQLITE_PATH, "sha256",
                                      hexdigest("sha256", "db"), "1"),
                          DetailElement(filelists_METADATA_FILE_NAME, FILELISTS_PATH, <<"a1">>),
                          DetailElement(other_METADATA_FILE_NAME, OTHER_PATH, <<"a1">>)>>],
      files |-> DetailFiles(<<"a1">>, <<"a1">>) @@ SQLITE_PATH :> File(1024, "db", <<>>)],
     [doc |-> [syntax_error |-> None, revision |-> "1",
               data |-> <<DataElement("primary", PRIMARY_PATH, "sha256",
                                      hexdigest("sha256", "c1"), "1"),
                          DetailElement(filelists_METADATA_FILE_NAME, FILELISTS_PATH, <<"b1">>)>>],
      files |-> (PRIMARY_PATH :> File(1024, "c1", <<>>) @@
                 FILELISTS_PATH :> File(1500, "b1", <<"b1">>))],
     [doc |-> [syntax_error |-> None, revision |-> None, data |-> <<>>], files |-> EmptyMap]}

PrimaryElement ==
    DataElement("primary", PRIMARY_PATH, "sha256", hexdigest("sha256", "c1"), "1")

\* documents that break the format after a sound primary entry: a syntax
\* error the parser meets in its first read ("start") or when it closes the
\* truncated document after the entries before ("end"), a <data> without a
\* type, a <data> without a <location>, a <location> without an href
MalformedDocs ==
    {[syntax_error |-> "start", revision |-> "1", data |-> <<PrimaryElement>>],
     [syntax_error |-> "end", revision |-> "1", data |-> <<PrimaryElement>>],
     [syntax_error |-> None, revision |-> "1",
      data |-> <<PrimaryElement,
                 [DetailElement(filelists_METADATA_FILE_NAME, FILELISTS_PATH, <<"b1">>)
                    EXCEPT !.type = None]>>],
     [syntax_error |-> None, revision |-> "1",
      data |-> <<PrimaryElement,
                 [DetailElement(filelists_METADATA_FILE_NAME, NoPath, <<"b1">>)
                    EXCEPT !.location = FALSE]>>],
     [syntax_error |-> None, revision |-> "1",
      data |-> <<PrimaryElement,
                 DetailElement(filelists_METADATA_FILE_NAME, NoPath, <<"b1">>)>>]}

MalformedRepos ==
    {[doc |-> doc, files |-> (PRIMARY_PATH :> File(1024, "c1", <<>>))] : doc \in MalformedDocs}

GroupElement(type, href, content) ==
    DataElement(type, href, "sha256", hexdigest("sha256", content), "1")

\* repositories that publish a group file: compressed and uncompressed, or
\* uncompressed only
GroupRepos ==
    {[doc |-> [syntax_error |-> None, revision |-> "1",
               data |-> <<GroupElement("group", GROUP_PATH, "comps"),
                          GroupElement("group_gz", GROUP_GZ_PATH, "comps.gz")>>],
      files |-> (GROUP_PATH :> File(1024, "comps", <<>>) @@
                 GROUP_GZ_PATH :> File(1024, "comps.gz", <<>>))],
     [doc |-> [syntax_error |-> None, revision |-> "1",
               data |-> <<GroupElement("group", GROUP_PATH, "comps")>>],
      files |-> (GROUP_PATH :> File(1024, "comps", <<>>))]}

\* a repository whose filelists file was altered after repomd.xml was
\* written: its bytes and its records differ from what the checksum covers
TamperedRepos ==
    {[doc |-> [syntax_error |-> None, revision |-> "1",
               data |-> <<PrimaryElement,
                          DetailElement(filelists_METADATA_FILE_NAME, FILELISTS_PATH, <<"b1">>),
                          DetailElement(other_METADATA_FILE_NAME, OTHER_PATH, <<"b1">>)>>],
      files |-> (PRIMARY_PATH :> File(1024, "c1", <<>>) @@
                 FILELISTS_PATH :> File(1500, "a1", <<"a1">>) @@
                 OTHER_PATH :> File(2047, "b1", <<"b1">>))]}

Repos ==
    VerifyRepos \cup IndexRepos \cup OddRepos \cup MalformedRepos \cup GroupRepos
        \cup TamperedRepos

-----------------------------------------------------------------------------
(* The fetcher (nectar): downloader.download(requests) *)

\* the enumerations of a finite set
Orders(S) == {s \in [1..Cardinality(S) -> S] : \A i, j \in DOMAIN s : s[i] = s[j] => i = j}

\* AggregatingEventListener.download_failed appends each failed report
Aggregate(reports, new) == reports \o new

DownloadRequest(path, dst) == [url |-> urljoin(repo_url, path), path |-> path, dst |-> dst]

\* what the repository serves at a path
Serve(path) ==
    IF path = REPOMD_URL_RELATIVE_PATH THEN [type |-> "repomd", doc |-> repo.doc]
    ELSE repo.files[path]

\* the requests of a batch the repository cannot serve
NotServed(requests) ==
    {r \in requests : r.path # REPOMD_URL_RELATIVE_PATH /\ r.path \notin DOMAIN repo.files}

\* the file system after the requests ok of a batch succeeded: each
\* destination holds what the repository serves at the request's path
Fetched(d, ok) ==
    LET dsts == {r.dst : r \in ok}
    IN  [p \in DOMAIN d \cup dsts |->
            IF p \in dsts THEN Serve((CHOOSE r \in ok : r.dst = p).path)
            ELSE d[p]]

\* downloader.download(requests): the requests in failed fail and are
\* reported in the sequence order, the others are written to their destination
download(requests, order) ==
    /\ Len(failed_reports) + Len(peer.failed_reports) + Len(order) <= MaxReports
    /\ disk' = Fetched(disk, requests \ {order[i] : i \in DOMAIN order})
    /\ failed_reports' = Aggregate(failed_reports, [i \in DOMAIN order |-> order[i].url])

-----------------------------------------------------------------------------
(* MetadataFiles *)

\* the fields of a session after __init__
Created ==
    [failed_reports |-> <<>>, revision |-> None, metadata |-> EmptyMap, dbs |-> EmptyMap]

Init ==
    /\ repo \in Repos
    /\ cur = "a"
    /\ cancelled = FALSE
    /\ peer = Created
    /\ disk = EmptyMap
    /\ failed_reports = <<>>
    /\ revision = None
    /\ metadata = EmptyMap
    /\ dbs = EmptyMap
    /\ result = [op |-> "__init__", outcome |-> "ok"]

download_repomd ==
    LET repomd_dst_path == path_join(dst_dir, REPOMD_FILE_NAME)
        repomd_request == DownloadRequest(REPOMD_URL_RELATIVE_PATH, repomd_dst_path)
    IN  \E failed \in SUBSET {repomd_request} : \E order \in Orders(failed) :
            /\ download({repomd_request}, order)
            /\ result' = [op |-> "download_repomd",
                          requests |-> {repomd_request},
                          failed |-> failed,
                          outcome |-> IF failed_reports' # <<>> THEN "IOError" ELSE "ok",
                          message |-> IF failed_reports' # <<>> THEN failed_reports'[1]
                                      ELSE None]
            /\ UNCHANGED <<cancelled, cur, peer, repo, revision, metadata, dbs>>

\* process_repomd_data_element(data_element): the file_info, or the exception
process_repomd_data_element(data_element) ==
    IF data_element.type = None THEN [outcome |-> "KeyError"]
    ELSE IF data_element.location /\ data_element.href = NoPath
    THEN [outcome |-> "KeyError"]
    ELSE IF \/ data_element.size # None /\ data_element.size \notin IntTexts
            \/ data_element.open_size # None /\ data_element.open_size \notin IntTexts
    THEN [outcome |-> "ValueError"]
    ELSE [outcome |-> "ok",
          file_info |->
            [FILE_INFO_SKEL EXCEPT
                !.name = data_element.type,
                !.relative_path = IF data_element.location THEN data_element.href
                                  ELSE NoPath,
                !.checksum = data_element.checksum,
                !.size = IF data_element.size = None THEN NoSize
                         ELSE int(data_element.size),
                !.timestamp = data_element.timestamp,
                !.open_checksum = data_element.open_checksum,
                !.open_size = IF data_element.open_size = None THEN NoSize
                              ELSE int(data_element.open_size)]]

\* the loop of parse_repomd over the data elements, in document order
RECURSIVE ParseData(_, _)
ParseData(data, md) ==
    IF Len(data) = 0 THEN [outcome |-> "ok", metadata |-> md]
    ELSE LET r == process_repomd_data_element(Head(data))
         IN  IF r.outcome # "ok" THEN [outcome |-> r.outcome, metadata |-> md]
             ELSE ParseData(Tail(data), Put(md, r.file_info.name, r.file_info))

parse_repomd ==
    LET repomd_file_path == path_join(dst_dir, REPOMD_FILE_NAME)
    IN  IF repomd_file_path \notin DOMAIN disk
        THEN /\ result' = [op |-> "parse_repomd", outcome |-> "RuntimeError",
                           message |-> "has not been downloaded"]
             /\ UNCHANGED <<cancelled, cur, peer, repo, disk, failed_reports, revision, metadata, dbs>>
        ELSE LET doc == disk[repomd_file_path].doc
                 parsed == ParseData(doc.data, metadata)
             IN  IF doc.syntax_error = "start"
                 \* xml_iterator.next() raises SyntaxError before any event
                 THEN /\ result' = [op |-> "parse_repomd", outcome |-> "ValueError",
                                    message |-> "could not parse repo metadata"]
                      /\ UNCHANGED <<cancelled, cur, peer, repo, disk, failed_reports, revision, metadata, dbs>>
                 \* a later syntax error leaves the loop after the elements
                 \* before it were processed
                 ELSE /\ revision' = IF doc.revision # None THEN doc.revision ELSE revision
                      /\ metadata' = parsed.metadata
                      /\ result' = [op |-> "parse_repomd",
                                    outcome |-> IF parsed.outcome # "ok" THEN parsed.outcome
                                                ELSE IF doc.syntax_error # None
                                                THEN "ParseError" ELSE "ok",
                                    message |-> None]
                      /\ UNCHANGED <<cancelled, cur, peer, repo, disk, failed_reports, dbs>>

\* a selection that keeps the sqlite files
Wanted_all(md) == DOMAIN md

\* the entries download_metadata_files requests: all but the sqlite files
Wanted(md) == {n \in DOMAIN md : ~find_sqlite(md[n].relative_path)}

\* the destination of an entry
Dst(md) == path_join(dst_dir, rsplit_last(md.relative_path))

download_metadata_files ==
    IF DOMAIN metadata = {}
    THEN /\ result' = [op |-> "download_metadata_files", outcome |-> "RuntimeError",
                       message |-> "has not been parsed", requests |-> {}, failed |-> {},
                       batches |-> <<>>]
         /\ UNCHANGED <<cancelled, cur, peer, repo, disk, failed_reports, revision, metadata, dbs>>
    ELSE IF \E n \in DOMAIN metadata : metadata[n].relative_path = NoPath
    \* None.find raises AttributeError at the first entry without a path; the
    \* entries the loop visited before it, in the order of the dict, have
    \* their local_path set
    THEN \E visited \in SUBSET {n \in Wanted(metadata) : metadata[n].relative_path # NoPath} :
            /\ metadata' = [n \in DOMAIN metadata |->
                              IF n \in visited
                              THEN [metadata[n] EXCEPT !.local_path = Dst(metadata[n])]
                              ELSE metadata[n]]
            /\ result' = [op |-> "download_metadata_files", outcome |-> "AttributeError",
                          message |-> None, requests |-> {}, failed |-> {},
                          batches |-> <<>>]
            /\ UNCHANGED <<cancelled, cur, peer, repo, disk, failed_reports, revision, dbs>>
    ELSE LET wanted == Wanted(metadata)
             download_request_list ==
                 {DownloadRequest(metadata[n].relative_path, Dst(metadata[n])) : n \in wanted}
         IN  \E failed \in SUBSET download_request_list : \E order \in Orders(failed) :
                /\ NotServed(download_request_list) \subseteq failed
                /\ metadata' = [n \in DOMAIN metadata |->
                                  IF n \in wanted
                                  THEN [metadata[n] EXCEPT !.local_path = Dst(metadata[n])]
                                  ELSE metadata[n]]
                /\ download(download_request_list, order)
                /\ result' = [op |-> "download_metadata_files", outcome |-> "ok",
                              message |-> None, requests |-> download_request_list,
                              failed |-> failed,
                              \* the calls of self.downloader.download
                              batches |-> <<download_request_list>>]
                /\ UNCHANGED <<cancelled, cur, peer, repo, revision, dbs>>

\* os.path.getsize(path) of an existing file
getsize(path) == disk[path].size

\* a byte-exact size check: local_file_size != md['size'] * 1024
SizeOk_exact(local_file_size, size) == local_file_size = size * 1024

\* a size check that rounds the kilobytes up
SizeOk_roundup(local_file_size, size) == (local_file_size + 1023) \div 1024 = size

\* local_file_size / 1024 != md['size'], negated: integer division
SizeOk(local_file_size, size) == local_file_size \div 1024 = size

\* a lookup that falls back to md5 for an unknown name
hash_constructor_default(algorithm) ==
    IF algorithm \in HashlibAttrs THEN algorithm ELSE "md5"

\* getattr(hashlib, algorithm, None)
hash_constructor(algorithm) == IF algorithm \in HashlibAttrs THEN algorithm ELSE None

\* a comparison of the declared digest with itself
ChecksumOk_self(computed, hex_digest) == hex_digest = hex_digest

\* hash_obj.hexdigest() != md['checksum']['hex_digest'], negated
ChecksumOk(computed, hex_digest) == computed = hex_digest

Raise(outcome, message) == [outcome |-> outcome, message |-> message, hashed |-> FALSE]

\* a loop body that passes over an entry that was not acquired
VerifyEntry_skip_unfetched(md) ==
    IF md.local_path = None THEN [outcome |-> "ok", message |-> None, hashed |-> FALSE]
    ELSE IF md.size = NoSize THEN Raise("RuntimeError", "no file size")
    ELSE IF md.local_path \notin DOMAIN disk THEN Raise("OSError", None)
    ELSE IF ~SizeOk(getsize(md.local_path), md.size)
    THEN Raise("RuntimeError", "file size mismatch")
    ELSE IF md.checksum.algorithm = None THEN Raise("RuntimeError", "no checksum")
    ELSE IF hash_constructor(md.checksum.algorithm) = None
    THEN Raise("RuntimeError", "unsupported hash algorithm")
    ELSE IF hash_constructor(md.checksum.algorithm) \notin HashConstructors
    THEN Raise("TypeError", None)
    ELSE IF ~ChecksumOk(hexdigest(hash_constructor(md.checksum.algorithm),
                                  disk[md.local_path].content),
                        md.checksum.hex_digest)
    THEN [outcome |-> "RuntimeError", message |-> "checksum mismatch", hashed |-> TRUE]
    ELSE [outcome |-> "ok", message |-> None, hashed |-> TRUE]

\* the body of the loop of verify_metadata_files for one entry: how it ends
\* and whether the file was read and digested
VerifyEntry(md) ==
    IF md.local_path = None
    \* the message is built from md['relative_path'].rsplit('/', 1)[-1]
    THEN IF md.relative_path = NoPath THEN Raise("AttributeError", None)
         ELSE Raise("RuntimeError", "has not been downloaded")
    ELSE IF md.size = NoSize THEN Raise("RuntimeError", "no file size")
    ELSE IF md.local_path \notin DOMAIN disk THEN Raise("OSError", None)
    ELSE IF ~SizeOk(getsize(md.local_path), md.size)
    THEN Raise("RuntimeError", "file size mismatch")
    ELSE IF md.checksum.algorithm = None THEN Raise("RuntimeError", "no checksum")
    ELSE IF hash_constructor(md.checksum.algorithm) = None
    THEN Raise("RuntimeError", "unsupported hash algorithm")
    ELSE IF hash_constructor(md.checksum.algorithm) \notin HashConstructors
    THEN Raise("TypeError", None)
    ELSE IF ~ChecksumOk(hexdigest(hash_constructor(md.checksum.algorithm),
                                  disk[md.local_path].content),
                        md.checksum.hex_digest)
    THEN [outcome |-> "RuntimeError", message |-> "checksum mismatch", hashed |-> TRUE]
    ELSE [outcome |-> "ok", message |-> None, hashed |-> TRUE]

\* the loop runs over self.metadata.values() in the order of the dict, and
\* the first entry that fails raises: any failing entry may be that one
verify_metadata_files ==
    LET names == DOMAIN metadata
        failing == {n \in names : VerifyEntry(metadata[n]).outcome # "ok"}
    IN  /\ \E n \in failing \cup {None} :
            /\ n = None <=> failing = {}
            /\ result' =
                 IF n = None
                 THEN [op |-> "verify_metadata_files", outcome |-> "ok", message |-> None,
                       entry |-> None, hashed |-> TRUE]
                 ELSE LET v == VerifyEntry(metadata[n])
                      IN  [op |-> "verify_metadata_files", outcome |-> v.outcome,
                           message |-> v.message, entry |-> n, hashed |-> v.hashed]
        /\ UNCHANGED <<cancelled, cur, peer, repo, disk, failed_reports, revision, metadata, dbs>>

\* get_metadata_file_handle(name): None, an open file, or IOError from open()
get_metadata_file_handle(name) ==
    IF name \notin DOMAIN metadata \/ metadata[name].local_path = None
    THEN [outcome |-> "ok", is_none |-> TRUE]
    ELSE IF metadata[name].local_path \notin DOMAIN disk
    THEN [outcome |-> "IOError", is_none |-> TRUE]
    ELSE [outcome |-> "ok", is_none |-> FALSE, file |-> disk[metadata[name].local_path]]

\* the handle get_group_file_handle returns when name is opened, or the
\* exception of the open
GroupHandle(name, handle) ==
    IF handle.outcome # "ok" THEN [outcome |-> handle.outcome, name |-> None, content |-> None]
    ELSE IF handle.is_none THEN [outcome |-> "ok", name |-> None, content |-> None]
    ELSE [outcome |-> "ok", name |-> name, content |-> handle.file.content]

\* a retrieval that tries the uncompressed file first
group_file_handle_plain_first ==
    LET handle == get_metadata_file_handle("group")
    IN  IF handle.outcome = "ok" /\ handle.is_none
        THEN GroupHandle("group_gz", get_metadata_file_handle("group_gz"))
        ELSE GroupHandle("group", handle)

\* the body of get_group_file_handle
group_file_handle ==
    LET handle == get_metadata_file_handle("group_gz")
    IN  IF handle.outcome = "ok" /\ handle.is_none
        THEN GroupHandle("group", get_metadata_file_handle("group"))
        ELSE GroupHandle("group_gz", handle)

get_group_file_handle ==
    /\ result' = [op |-> "get_group_file_handle", outcome |-> group_file_handle.outcome,
                  name |-> group_file_handle.name, content |-> group_file_handle.content]
    /\ UNCHANGED <<cancelled, cur, peer, repo, disk, failed_reports, revision, metadata, dbs>>

\* package_list_generator(xml_file_handle, tag): the package elements of a
\* detail file, in file order
package_list_generator(file, kind) ==
    [i \in 1..Len(file.packages) |-> [kind |-> kind, pkgid |-> file.packages[i]]]

\* a record at which the streaming parse of a detail file raises
MalformedRecord == "?"

\* the elements the generator yields before the parse raises, if it does
Yielded(elements) ==
    LET bad == {i \in 1..Len(elements) : elements[i].pkgid = MalformedRecord}
    IN  IF bad = {} THEN elements
        ELSE SubSeq(elements, 1, (CHOOSE i \in bad : \A j \in bad : i <= j) - 1)

\* element_to_raw_xml(element)
element_to_raw_xml(element) == <<element.kind, element.pkgid>>

\* ElementTree.fromstring(raw_xml)
fromstring(raw_xml) == [kind |-> raw_xml[1], pkgid |-> raw_xml[2]]

\* filelists.process_package_element and other.process_package_element
process_package_element(element) ==
    [unit_key |-> UnitKeyOf(element.pkgid),
     items |-> <<element.kind \o "-items", element.pkgid>>]

\* unit_key.pop(name, None)
pop(unit_key, name) == SelectSeq(unit_key, LAMBDA kv : kv[1] # name)

\* unit_key.keys(), in the order of the dict
keys(unit_key) == [i \in 1..Len(unit_key) |-> unit_key[i][1]]

\* unit_key[name]
getitem(unit_key, name) ==
    unit_key[CHOOSE i \in 1..Len(unit_key) : unit_key[i][1] = name][2]

\* the order of str on the field names of a unit key
KeyNameOrder == <<"arch", "checksum", "checksumtype", "epoch", "name", "release", "version">>

Rank(name) == CHOOSE i \in 1..Len(KeyNameOrder) : KeyNameOrder[i] = name

\* sorted(names)
RECURSIVE SortSet(_)
SortSet(S) ==
    IF S = {} THEN <<>>
    ELSE LET m == CHOOSE x \in S : \A y \in S : Rank(x) <= Rank(y)
         IN  <<m>> \o SortSet(S \ {m})

sorted(names) == SortSet({names[i] : i \in 1..Len(names)})

\* separator.join(parts)
RECURSIVE join(_, _)
join(separator, parts) ==
    IF Len(parts) = 0 THEN ""
    ELSE IF Len(parts) = 1 THEN parts[1]
    ELSE parts[1] \o separator \o join(separator, Tail(parts))

\* a key that keeps the order of the dict and the checksum type
generate_db_key_unsorted(unit_key) ==
    LET popped == pop(unit_key, "checksum")
        key_names == keys(popped)
    IN  join("::", [i \in 1..Len(key_names) |->
                      key_names[i] \o ":" \o getitem(popped, key_names[i])])

generate_db_key(unit_key) ==
    LET popped == pop(pop(unit_key, "checksum"), "checksumtype")
        sorted_key_names == sorted(keys(popped))
    IN  join("::", [i \in 1..Len(sorted_key_names) |->
                      sorted_key_names[i] \o ":" \o getitem(popped, sorted_key_names[i])])

\* the loop of generate_dbs over the elements: db_file_handle[db_key] = raw_xml
RECURSIVE WriteElements(_, _)
WriteElements(elements, db) ==
    IF Len(elements) = 0 THEN db
    ELSE LET element == Head(elements)
             raw_xml == element_to_raw_xml(element)
             db_key == generate_db_key(process_package_element(element).unit_key)
         IN  WriteElements(Tail(elements), Put(db, db_key, raw_xml))

\* the index stores on disk
Stores(d) == {p \in DOMAIN d : d[p].type = "gdbm"}

\* gdbm.open(db_filename, 'nf'): always a new, empty database
gdbm_new == [type |-> "gdbm", db |-> EmptyMap]

\* an open that keeps the database that is there: gdbm.open(db_filename, 'cf')
gdbm_open_cf(d, db_filename) ==
    IF db_filename \in DOMAIN d /\ d[db_filename].type = "gdbm" THEN d[db_filename]
    ELSE gdbm_new

\* the database gdbm.open(db_filename, 'nf') leaves on the file system d
gdbm_open_nf(d, db_filename) == gdbm_new

\* the handle gdbm.open(path, flag) returns
gdbm_open(path, flag) == [path |-> path, flag |-> flag, closed |-> FALSE]

\* handle.close()
close(handle) == [handle EXCEPT !.closed = TRUE]

\* a pass that records the store in the dbs map as soon as it is opened
BuildDb_record_first(filename, d, b) ==
    LET xml_file_handle == get_metadata_file_handle(filename)
        db_filename == path_join(dst_dir, filename \o ".db")
        db_file_handle == gdbm_open(db_filename, "nf")
    IN  IF xml_file_handle.outcome # "ok"
        THEN [outcome |-> xml_file_handle.outcome, disk |-> d, dbs |-> b, handles |-> <<>>]
        ELSE IF xml_file_handle.is_none
        THEN [outcome |-> "AttributeError",
              disk |-> Put(d, db_filename, gdbm_open_nf(d, db_filename)),
              dbs |-> Put(b, filename, db_filename),
              handles |-> <<close(db_file_handle)>>]
        ELSE LET generator == package_list_generator(xml_file_handle.file, filename)
                 written == [gdbm_open_nf(d, db_filename) EXCEPT !.db =
                               WriteElements(Yielded(generator), @)]
             IN  [outcome |-> IF Yielded(generator) # generator THEN "SyntaxError" ELSE "ok",
                  disk |-> Put(d, db_filename, written),
                  dbs |-> Put(b, filename, db_filename),
                  handles |-> <<close(db_file_handle)>>]

\* one pass of the loop of generate_dbs, from file system d and dbs map b;
\* handles are the store handles the pass opened, as it leaves them
BuildDb(filename, d, b) ==
    LET xml_file_handle == get_metadata_file_handle(filename)
        db_filename == path_join(dst_dir, filename \o ".db")
        db_file_handle == gdbm_open(db_filename, "nf")
    IN  IF xml_file_handle.outcome # "ok"
        THEN [outcome |-> xml_file_handle.outcome, disk |-> d, dbs |-> b, handles |-> <<>>]
        ELSE IF xml_file_handle.is_none
        \* the generator raises at its first element, after gdbm.open; the
        \* inner finally closes the store, and closing the None handle in
        \* the outer finally raises AttributeError
        THEN [outcome |-> "AttributeError",
              disk |-> Put(d, db_filename, gdbm_open_nf(d, db_filename)), dbs |-> b,
              handles |-> <<close(db_file_handle)>>]
        ELSE LET generator == package_list_generator(xml_file_handle.file, filename)
                 written == [gdbm_open_nf(d, db_filename) EXCEPT !.db =
                               WriteElements(Yielded(generator), @)]
             IN  IF Yielded(generator) # generator
                 \* the parse raises in the loop, after the records before
                 \* the malformed one were written: both finally clauses
                 \* close, and line 259 is not reached
                 THEN [outcome |-> "SyntaxError",
                       disk |-> Put(d, db_filename, written), dbs |-> b,
                       handles |-> <<close(db_file_handle)>>]
                 ELSE [outcome |-> "ok",
                       disk |-> Put(d, db_filename, written),
                       dbs |-> Put(b, filename, db_filename),
                       handles |-> <<close(db_file_handle)>>]

generate_dbs ==
    LET first == BuildDb(filelists_METADATA_FILE_NAME, disk, dbs)
        last == IF first.outcome = "ok"
                THEN BuildDb(other_METADATA_FILE_NAME, first.disk, first.dbs)
                ELSE first
        handles == IF first.outcome = "ok" THEN first.handles \o last.handles
                   ELSE first.handles
        opened == {handles[i].path : i \in 1..Len(handles)}
    IN  /\ disk' = last.disk
        /\ dbs' = last.dbs
        /\ result' = [op |-> "generate_dbs", outcome |-> last.outcome,
                      failed_at |-> IF first.outcome # "ok" THEN filelists_METADATA_FILE_NAME
                                    ELSE IF last.outcome # "ok" THEN other_METADATA_FILE_NAME
                                    ELSE None,
                      handles |-> handles,
                      \* the databases that were at the paths opened
                      overwritten |-> [path \in opened \cap Stores(disk) |-> disk[path].db]]
        /\ UNCHANGED <<cancelled, cur, peer, repo, failed_reports, revision, metadata>>

\* the orders in which a unit key lists its six fields
KeyOrders == {<<1, 2, 3, 4, 5, 6>>, <<6, 5, 4, 3, 2, 1>>, <<4, 1, 6, 5, 3, 2>>}

Permuted(unit_key, o) == [i \in 1..Len(o) |-> unit_key[o[i]]]

\* a package of primary.xml that no detail file lists
UnlistedKey ==
    <<<<"name", "c">>, <<"version", "1">>, <<"release", "1">>,
      <<"arch", "x86_64">>, <<"checksum", "feedface">>, <<"checksumtype", "sha256">>>>

\* the units add_repodata is called with: model.unit_key and model.raw_xml
Models ==
    {[unit_key |-> UnitKeyOf("a1"), raw_xml |-> <<"primary", "a1">>],
     [unit_key |-> Permuted(UnitKeyOf("a2"), <<4, 1, 6, 5, 3, 2>>),
      raw_xml |-> <<"primary", "a2">>],
     [unit_key |-> Permuted(UnitKeyOf("b1"), <<6, 5, 4, 3, 2, 1>>),
      raw_xml |-> <<"primary", "b1">>],
     [unit_key |-> UnlistedKey, raw_xml |-> <<"primary", "c1">>]}

\* a lookup that reads every kind from the filelists store
ReadDb_first(filename, db_key, opened) ==
    LET db_file == gdbm_open(dbs[filelists_METADATA_FILE_NAME], "r")
    IN  IF filelists_METADATA_FILE_NAME \notin DOMAIN dbs
        THEN [outcome |-> IF opened THEN "KeyError" ELSE "UnboundLocalError",
              handles |-> <<>>]
        ELSE IF db_key \notin DOMAIN disk[dbs[filelists_METADATA_FILE_NAME]].db
        THEN [outcome |-> "KeyError", handles |-> <<close(db_file)>>]
        ELSE [outcome |-> "ok",
              raw_xml |-> disk[dbs[filelists_METADATA_FILE_NAME]].db[db_key],
              handles |-> <<close(db_file)>>]

\* a lookup without the finally: the handle is closed only after a hit
ReadDb_no_finally(filename, db_key, opened) ==
    LET db_file == gdbm_open(dbs[filename], "r")
    IN  IF filename \notin DOMAIN dbs
        THEN [outcome |-> "KeyError", handles |-> <<>>]
        ELSE IF dbs[filename] \notin DOMAIN disk
        THEN [outcome |-> "gdbm.error", handles |-> <<>>]
        ELSE IF db_key \notin DOMAIN disk[dbs[filename]].db
        THEN [outcome |-> "KeyError", handles |-> <<db_file>>]
        ELSE [outcome |-> "ok", raw_xml |-> disk[dbs[filename]].db[db_key],
              handles |-> <<close(db_file)>>]

\* the try block of add_repodata: gdbm.open(self.dbs[filename], 'r') and
\* db_file[db_key]; opened says whether db_file is bound from an earlier pass
\* handles are the store handles the block opened, as the finally leaves them
ReadDb(filename, db_key, opened) ==
    LET db_file == gdbm_open(dbs[filename], "r")
    IN  IF filename \notin DOMAIN dbs
        THEN [outcome |-> IF opened THEN "KeyError" ELSE "UnboundLocalError",
              handles |-> <<>>]
        ELSE IF dbs[filename] \notin DOMAIN disk
        THEN [outcome |-> IF opened THEN "gdbm.error" ELSE "UnboundLocalError",
              handles |-> <<>>]
        ELSE IF db_key \notin DOMAIN disk[dbs[filename]].db
        THEN [outcome |-> "KeyError", handles |-> <<close(db_file)>>]
        ELSE [outcome |-> "ok", raw_xml |-> disk[dbs[filename]].db[db_key],
              handles |-> <<close(db_file)>>]

\* one pass of the loop of add_repodata over model.metadata m
AddFrom(filename, metadata_key, db_key, opened, m) ==
    LET r == ReadDb(filename, db_key, opened)
    IN  IF r.outcome # "ok"
        THEN [outcome |-> r.outcome, metadata |-> m, handles |-> r.handles]
        ELSE [outcome |-> "ok", handles |-> r.handles,
              metadata |->
                Put([m EXCEPT !.repodata = Put(@, filename, r.raw_xml)],
                    metadata_key, process_package_element(fromstring(r.raw_xml)).items)]

add_repodata ==
    \E m \in Models :
        LET db_key == generate_db_key(m.unit_key)
            m0 == [repodata |-> EmptyMap]
            first == AddFrom(filelists_METADATA_FILE_NAME, "files", db_key, FALSE, m0)
            last == IF first.outcome = "ok"
                    THEN AddFrom(other_METADATA_FILE_NAME, "changelog", db_key, TRUE,
                                 first.metadata)
                    ELSE first
            done == IF last.outcome = "ok"
                    THEN [last.metadata EXCEPT !.repodata = Put(@, "primary", m.raw_xml)]
                    ELSE last.metadata
        IN  /\ result' = [op |-> "add_repodata", outcome |-> last.outcome,
                          unit_key |-> m.unit_key, raw_xml |-> m.raw_xml,
                          db_key |-> db_key, metadata |-> done,
                          handles |-> IF first.outcome = "ok"
                                      THEN first.handles \o last.handles
                                      ELSE first.handles]
            /\ UNCHANGED <<cancelled, cur, peer, repo, disk, failed_reports, revision, metadata, dbs>>

Next ==
    \/ download_repomd
    \/ parse_repomd
    \/ download_metadata_files
    \/ verify_metadata_files
    \/ get_group_file_handle
    \/ generate_dbs
    \/ add_repodata

Spec == Init /\ [][Next]_vars

-----------------------------------------------------------------------------
(* Two sessions of the embedding system, each a MetadataFiles of its own *)

\* the turn passes to the other session: its fields become the current
\* ones, and the fields of the session that had the turn wait in peer
switch ==
    /\ cur' = CHOOSE session \in Sessions : session # cur
    /\ peer' = [failed_reports |-> failed_reports, revision |-> revision,
                metadata |-> metadata, dbs |-> dbs]
    /\ failed_reports' = peer.failed_reports
    /\ revision' = peer.revision
    /\ metadata' = peer.metadata
    /\ dbs' = peer.dbs
    /\ result' = [op |-> "switch", outcome |-> "ok"]
    /\ UNCHANGED <<cancelled, repo, disk>>

\* the repositories two sessions synchronize at the same time
\* a repository that publishes a filelists file only
SessionRepos ==
    {[doc |-> [syntax_error |-> None, revision |-> "1",
               data |-> <<DetailElement(filelists_METADATA_FILE_NAME, FILELISTS_PATH, <<"b1">>)>>],
      files |-> (FILELISTS_PATH :> File(1500, "b1", <<"b1">>))]}

InitSessions ==
    /\ repo \in SessionRepos
    /\ cur = "a"
    /\ cancelled = FALSE
    /\ peer = Created
    /\ disk = EmptyMap
    /\ failed_reports = <<>>
    /\ revision = None
    /\ metadata = EmptyMap
    /\ dbs = EmptyMap
    /\ result = [op |-> "__init__", outcome |-> "ok"]

NextSessions == Next \/ switch

SpecSessions == InitSessions /\ [][NextSessions]_vars

-----------------------------------------------------------------------------
(* A repository that is published anew while a session synchronizes it *)

\* the two states of the repository: its detail files list a1 and b1, or b1
RepublishRepos ==
    {[doc |-> [syntax_error |-> None, revision |-> "1",
               data |-> <<DetailElement(filelists_METADATA_FILE_NAME, FILELISTS_PATH, fl),
                          DetailElement(other_METADATA_FILE_NAME, OTHER_PATH, fl)>>],
      files |-> (FILELISTS_PATH :> File(1500, ContentOf(fl), fl) @@
                 OTHER_PATH :> File(2047, ContentOf(fl), fl))] :
        fl \in {<<"a1", "b1">>, <<"b1">>}}

\* the repository behind repo_url is published without package a1
republish ==
    /\ repo.files[FILELISTS_PATH].packages = <<"a1", "b1">>
    /\ repo' \in RepublishRepos \ {repo}
    /\ UNCHANGED <<disk, failed_reports, revision, metadata, dbs, result, cur, peer, cancelled>>

InitRepublish ==
    /\ repo \in RepublishRepos
    /\ repo.files[FILELISTS_PATH].packages = <<"a1", "b1">>
    /\ cur = "a"
    /\ cancelled = FALSE
    /\ peer = Created
    /\ disk = EmptyMap
    /\ failed_reports = <<>>
    /\ revision = None
    /\ metadata = EmptyMap
    /\ dbs = EmptyMap
    /\ result = [op |-> "__init__", outcome |-> "ok"]

NextRepublish == Next \/ republish

SpecRepublish == InitRepublish /\ [][NextRepublish]_vars

-----------------------------------------------------------------------------
(* A session that the embedding system asks to stop *)

\* the embedding system requests cancellation of the session; the request
\* stands from then on.  MetadataFiles has no field for it and no method
\* reads it.
cancel ==
    /\ ~cancelled
    /\ cancelled' = TRUE
    /\ result' = [op |-> "cancel", outcome |-> "ok"]
    /\ UNCHANGED <<cur, peer, repo, disk, failed_reports, revision, metadata, dbs>>

InitCancel ==
    /\ repo \in IndexRepos
    /\ cur = "a"
    /\ cancelled = FALSE
    /\ peer = Created
    /\ disk = EmptyMap
    /\ failed_reports = <<>>
    /\ revision = None
    /\ metadata = EmptyMap
    /\ dbs = EmptyMap
    /\ result = [op |-> "__init__", outcome |-> "ok"]

NextCancel == Next \/ cancel

SpecCancel == InitCancel /\ [][NextCancel]_vars

-----------------------------------------------------------------------------
(* A repository with a detail file that breaks off *)

\* repositories whose filelists file, or whose other file, holds a record
\* the parser cannot read after a sound one, and one whose files are sound
TruncatedRepos ==
    {[doc |-> [syntax_error |-> None, revision |-> "1",
               data |-> <<DetailElement(filelists_METADATA_FILE_NAME, FILELISTS_PATH, fo[1]),
                          DetailElement(other_METADATA_FILE_NAME, OTHER_PATH, fo[2])>>],
      files |-> (FILELISTS_PATH :> File(1500, ContentOf(fo[1]), fo[1]) @@
                 OTHER_PATH :> File(2047, ContentOf(fo[2]), fo[2]))] :
        fo \in {<<<<"a1", MalformedRecord>>, <<"a1">>>>,
                <<<<"a1", "b1">>, <<"a1", MalformedRecord, "b1">>>>,
                <<<<"a1", "b1">>, <<"a1", "b1">>>>}}

InitTruncated ==
    /\ repo \in TruncatedRepos
    /\ cur = "a"
    /\ cancelled = FALSE
    /\ peer = Created
    /\ disk = EmptyMap
    /\ failed_reports = <<>>
    /\ revision = None
    /\ metadata = EmptyMap
    /\ dbs = EmptyMap
    /\ result = [op |-> "__init__", outcome |-> "ok"]

SpecTruncated == InitTruncated /\ [][Next]_vars

-----------------------------------------------------------------------------
(* YumImporter.import_units (plugins/importers/yum/importer.py) *)

\* constants.CONFIG_RECURSIVE, CONFIG_RECURSIVE_CONSERVATIVE and
\* CONFIG_ADDITIONAL_REPOS: the keys of the call configuration
CONFIG_RECURSIVE == "recursive"

CONFIG_RECURSIVE_CONSERVATIVE == "recursive_conservative"

CONFIG_ADDITIONAL_REPOS == "additional_repos"

\* ids.TYPE_ID_RPM and ids.TYPE_ID_MODULEMD
TYPE_ID_RPM == "rpm"

TYPE_ID_MODULEMD == "modulemd"

\* the repositories of the call: source_transfer_repo.id and
\* dest_transfer_repo.id; both are in the platform's database
source_repo == "src"

dest_repo == "dst"

\* the values of additional_repos: a dict of source to destination ids
AdditionalRepos == {EmptyMap, "src2" :> "dst2"}

\* a flag of the configuration: absent, False or True
FlagDicts(key) == {EmptyMap} \cup {key :> b : b \in BOOLEAN}

\* the call configurations: each key is absent or has a value
Configs ==
    {r @@ rc @@ ar :
        r \in FlagDicts(CONFIG_RECURSIVE),
        rc \in FlagDicts(CONFIG_RECURSIVE_CONSERVATIVE),
        ar \in {EmptyMap} \cup {CONFIG_ADDITIONAL_REPOS :> m : m \in AdditionalRepos}}

\* the units of the source repository, and unit._content_type_id
ImportableUnits == {"rpm1", "modulemd1", "erratum1"}

content_type_id(unit) ==
    CASE unit = "rpm1" -> TYPE_ID_RPM
      [] unit = "modulemd1" -> TYPE_ID_MODULEMD
      [] unit = "erratum1" -> "erratum"

\* units=None, the default of the parameter
NoUnits == {None}

\* the values of the parameter units
UnitArguments == {NoUnits} \cup SUBSET ImportableUnits

\* the truth value of config.get(key) for a flag: None when the key is absent
get_flag(config, key) == key \in DOMAIN config /\ config[key]

\* config.get(constants.CONFIG_ADDITIONAL_REPOS, {})
get_additional_repos(config) ==
    IF CONFIG_ADDITIONAL_REPOS \in DOMAIN config THEN config[CONFIG_ADDITIONAL_REPOS]
    ELSE EmptyMap

\* recursive = config.get(CONFIG_RECURSIVE) or config.get(CONFIG_RECURSIVE_CONSERVATIVE)
recursive(config) ==
    get_flag(config, CONFIG_RECURSIVE) \/ get_flag(config, CONFIG_RECURSIVE_CONSERVATIVE)

\* a test that lets every configuration pass
additional_without_recursive_never(config) == FALSE

\* config.get(CONFIG_ADDITIONAL_REPOS) and not recursive: an empty dict is
\* false
additional_without_recursive(config) ==
    DOMAIN get_additional_repos(config) # {} /\ ~recursive(config)

\* a call associate.associate(source, dest, import_conduit, config, units)
associate(source, dest, units) == [source |-> source, dest |-> dest, units |-> units]

\* the units a call of associate copies: all units of the source when none
\* are named
Copied(association) ==
    IF association.units = NoUnits THEN ImportableUnits ELSE association.units

\* pulp_solv.Solver(source_repo, target_repo=dest_repo, conservative=...,
\* ignore_missing=False) and solver.load()
Solver(config) ==
    <<[call |-> "Solver", source |-> source_repo, target |-> dest_repo,
       conservative |-> get_flag(config, CONFIG_RECURSIVE_CONSERVATIVE),
       ignore_missing |-> FALSE],
      [call |-> "load"]>>

\* what solver.find_dependent_rpms(seeds) may return: per repository the
\* units to copy, the seeds of the source repository among them
find_dependent_rpms(seeds) ==
    {(source_repo :> seeds \cup dependencies) @@ others :
        dependencies \in SUBSET {"rpm2"},
        others \in {EmptyMap, "src2" :> {}, "src2" :> {"rpm3"}}}

\* the report of a call of import_units
Imported(config, units, outcome, solver, associations, rebuilds) ==
    [op |-> "import_units", outcome |-> outcome, config |-> config, units |-> units,
     solver |-> solver, associations |-> associations, rebuilds |-> rebuilds,
     returned |-> IF outcome = "ok"
                  THEN [copied |-> UNION {Copied(associations[i]) :
                                            i \in 1..Len(associations)},
                        failed |-> {}]
                  ELSE [copied |-> {}, failed |-> {}]]

import_units ==
    /\ \E config \in Configs, units \in UnitArguments :
          IF additional_without_recursive(config)
          THEN result' = Imported(config, units, "ValueError", <<>>, <<>>, <<>>)
          ELSE IF ~recursive(config)
          THEN result' = Imported(config, units, "ok", <<>>,
                                  <<associate(source_repo, dest_repo, units)>>, <<>>)
          \* iterating units=None raises TypeError after solver.load()
          ELSE IF units = NoUnits
          THEN result' = Imported(config, units, "TypeError", Solver(config), <<>>, <<>>)
          ELSE LET additional_repos == get_additional_repos(config)
                   seeds == {unit \in units :
                               content_type_id(unit) \in {TYPE_ID_RPM, TYPE_ID_MODULEMD}}
               IN  \E repo_unit_set \in find_dependent_rpms(seeds),
                      order \in Orders(DOMAIN additional_repos) :
                      LET \* the additional repositories that have units to copy
                          copying == SelectSeq(order,
                                         LAMBDA src_id : /\ src_id \in DOMAIN repo_unit_set
                                                         /\ repo_unit_set[src_id] # {})
                      IN  result' =
                            Imported(config, units, "ok",
                                     Solver(config) \o
                                       <<[call |-> "find_dependent_rpms", seeds |-> seeds]>>,
                                     <<associate(source_repo, dest_repo,
                                                 repo_unit_set[source_repo])>> \o
                                       [i \in 1..Len(copying) |->
                                          associate(copying[i], additional_repos[copying[i]],
                                                    repo_unit_set[copying[i]])],
                                     \* rebuild_content_unit_counts(dest_repo), once
                                     \* for each additional repository copied from
                                     [i \in 1..Len(copying) |-> dest_repo])
    /\ UNCHANGED <<cancelled, cur, peer, repo, disk, failed_reports, revision, metadata, dbs>>

InitImporter ==
    /\ repo \in SessionRepos
    /\ cur = "a"
    /\ cancelled = FALSE
    /\ peer = Created
    /\ disk = EmptyMap
    /\ failed_reports = <<>>
    /\ revision = None
    /\ metadata = EmptyMap
    /\ dbs = EmptyMap
    /\ result = [op |-> "__init__", outcome |-> "ok"]

NextImporter == import_units

SpecImporter == InitImporter /\ [][NextImporter]_vars

-----------------------------------------------------------------------------
(* The stages of a session, read off the state *)

\* repomd.xml is in the destination directory
DescriptorFetched == path_join(dst_dir, REPOMD_FILE_NAME) \in DOMAIN disk

\* the metadata dictionary is populated
DescriptorParsed == DOMAIN metadata # {}

\* the file of a metadata entry was requested and is on disk
Acquired(name) ==
    /\ name \in DOMAIN metadata
    /\ metadata[name].local_path # None
    /\ metadata[name].local_path \in DOMAIN disk

\* every file that download_metadata_files requests is on disk
FilesAcquired == DescriptorParsed /\ \A n \in Wanted(metadata) : Acquired(n)

DetailKinds == {filelists_METADATA_FILE_NAME, other_METADATA_FILE_NAME}

-----------------------------------------------------------------------------
(* C1 *)

\* C1: in any sequence of calls no stage takes effect before its predecessor
\* completed: parse_repomd changes nothing unless repomd.xml was fetched,
\* download_metadata_files requests nothing unless the descriptor was parsed,
\* verify_metadata_files passes only if the files were acquired, and
\* generate_dbs creates no index store unless filelists and other were both
\* acquired.
C1_StagesInOrder ==
    [][ /\ (result'.op = "parse_repomd" /\ ~DescriptorFetched)
            => UNCHANGED <<revision, metadata>>
        /\ (result'.op = "download_metadata_files" /\ ~DescriptorParsed)
            => (result'.requests = {} /\ disk' = disk)
        /\ (result'.op = "verify_metadata_files" /\ result'.outcome = "ok")
            => FilesAcquired
        /\ (result'.op = "generate_dbs" /\ ~(\A k \in DetailKinds : Acquired(k)))
            => (Stores(disk') = Stores(disk) /\ \A p \in Stores(disk) : disk'[p] = disk[p])
      ]_vars

-----------------------------------------------------------------------------
(* C2, C3 *)

\* C2: in every reachable state an entry of the descriptor has local_path set
\* only if the fetch of that entry succeeded: an entry whose fetch failed or
\* was never issued has no local_path.
C2_LocalPathOnlyIfFetched ==
    \A n \in DOMAIN metadata :
        metadata[n].local_path # None => metadata[n].local_path \in DOMAIN disk

\* C3: if the fetcher reports a failure for a request of the metadata batch,
\* download_metadata_files fails with an error that carries the first reported
\* failure, and the session does not reach FilesAcquired.
C3_BatchFailureRaises ==
    (result.op = "download_metadata_files" /\ result.failed # {})
        => /\ result.outcome = "IOError"
           /\ result.message = failed_reports[1]
           /\ ~FilesAcquired

-----------------------------------------------------------------------------
(* C4 .. C7: verify_metadata_files, entry by entry *)

Verified == result.op = "verify_metadata_files"

\* the entries the last verify call is known to have checked: all of them
\* when it passed, else the one it raised at
Checked == IF result.outcome = "ok" THEN DOMAIN metadata ELSE {result.entry}

\* the check of entry n got as far as comparing sizes
SizeChecked(n) ==
    /\ Verified /\ n \in Checked
    /\ metadata[n].local_path # None
    /\ metadata[n].size # NoSize
    /\ metadata[n].local_path \in DOMAIN disk

RaisedAt(n, message) ==
    result.entry = n /\ result.outcome = "RuntimeError" /\ result.message = message

SizeMismatchAt(n) == RaisedAt(n, "file size mismatch")

ChecksumMismatchAt(n) == RaisedAt(n, "checksum mismatch")

UnsupportedAt(n) == RaisedAt(n, "unsupported hash algorithm")

\* the check of entry n got as far as looking the algorithm up
AlgorithmChecked(n) ==
    /\ SizeChecked(n)
    /\ ~SizeMismatchAt(n)
    /\ metadata[n].checksum.algorithm # None

BytesOf(n) == disk[metadata[n].local_path].size

ClosedSet == {"md5", "sha1", "sha256", "sha384", "sha512"}

DigestMatches(n) ==
    hexdigest(metadata[n].checksum.algorithm, disk[metadata[n].local_path].content)
        = metadata[n].checksum.hex_digest

\* C7: for an acquired file whose size check passes and whose algorithm is
\* supported, verify passes exactly when the digest of the content equals the
\* declared digest and fails with a checksum mismatch when it differs; a size
\* mismatch is reported as a size mismatch, never as a checksum mismatch.
C7_DigestDecides ==
    \A n \in DOMAIN metadata :
        /\ (AlgorithmChecked(n) /\ metadata[n].checksum.algorithm \in HashConstructors)
             => /\ DigestMatches(n) => (result.entry # n /\ result.outcome = "ok")
                /\ ~DigestMatches(n) => ChecksumMismatchAt(n)
        /\ (SizeChecked(n) /\ BytesOf(n) \div 1024 # metadata[n].size)
             => (SizeMismatchAt(n) /\ ~ChecksumMismatchAt(n))

\* a tampered file of the right size was refused for its checksum
C7_Witness ==
    \E n \in DOMAIN metadata :
        /\ AlgorithmChecked(n)
        /\ metadata[n].checksum.algorithm = "sha256"
        /\ disk[metadata[n].local_path].content = "c2"
        /\ ChecksumMismatchAt(n)

-----------------------------------------------------------------------------
(* C8: generate_db_key *)

\* a checksum and its type, as a unit key may state them
Checksums == {<<"deadbeef", "sha256">>, <<"cafebabe", "sha1">>}

\* unit_key with its checksum and checksum type replaced
WithChecksum(unit_key, c, t) ==
    [i \in 1..Len(unit_key) |->
        IF unit_key[i][1] = "checksum" THEN <<"checksum", c>>
        ELSE IF unit_key[i][1] = "checksumtype" THEN <<"checksumtype", t>>
        ELSE unit_key[i]]

\* orders of the six fields: the rotations and KeyOrders
FieldOrders == KeyOrders \cup {[i \in 1..6 |-> ((i + k) % 6) + 1] : k \in 0..5}

\* the unit keys with the non-checksum fields of unit_key: in each of these
\* orders, under every checksum and every checksum type
Variants(unit_key) ==
    {Permuted(WithChecksum(unit_key, c[1], c[2]), o) : c \in Checksums, o \in FieldOrders}

\* the normalized key, written out
Normalized(unit_key) ==
    "arch:" \o getitem(unit_key, "arch") \o "::name:" \o getitem(unit_key, "name")
    \o "::release:" \o getitem(unit_key, "release")
    \o "::version:" \o getitem(unit_key, "version")

\* C8: generate_db_key yields the same key for any two unit keys with the
\* same non-checksum fields, whatever the order of the fields and whatever
\* the checksum and the checksum type: neither appears in the key.
C8_KeyIgnoresOrderAndChecksum ==
    result.op = "add_repodata" =>
        /\ result.db_key = Normalized(result.unit_key)
        /\ \A u \in Variants(result.unit_key) : generate_db_key(u) = result.db_key

\* add_repodata computed the key of a unit key given in another order and
\* under another checksum than the detail files state
C8_Witness ==
    /\ result.op = "add_repodata"
    /\ result.unit_key # UnitKeyOf("a1")
    /\ result.db_key = generate_db_key(UnitKeyOf("a1"))
    /\ result.db_key = "arch:x86_64::name:a::release:1::version:1"

-----------------------------------------------------------------------------
(* C9, C10 *)

\* the store generate_dbs writes from a detail file whose records are in the
\* order o
StoreOf(kind, o) ==
    LET file == disk[metadata[kind].local_path]
    IN  WriteElements(package_list_generator(
            [file EXCEPT !.packages = [i \in 1..Len(o) |-> file.packages[o[i]]]], kind),
            EmptyMap)

\* C9: generate_dbs builds the same store contents from two detail files that
\* hold the same records in different physical orders, also when several
\* records have the same normalized key; building twice from one file gives
\* the same contents.
C9_BuildIgnoresRecordOrder ==
    (result.op = "generate_dbs" /\ result.outcome = "ok") =>
        \A kind \in DetailKinds :
            \A o \in Orders(1..Len(disk[metadata[kind].local_path].packages)) :
                StoreOf(kind, o) = disk[dbs[kind]].db

\* the store of a kind lacks the key of the unit of the last add_repodata call
Miss(kind) == result.db_key \notin DOMAIN disk[dbs[kind]].db

\* C10: when the key of a unit is absent from the filelists store or from the
\* other store, add_repodata returns without raising: the missing fragment
\* and payload are omitted, the primary fragment and every fragment that was
\* found are attached.
C10_MissIsNotFatal ==
    (/\ result.op = "add_repodata"
     /\ DetailKinds \subseteq DOMAIN dbs
     /\ \E kind \in DetailKinds : Miss(kind))
        => /\ result.outcome = "ok"
           /\ "primary" \in DOMAIN result.metadata.repodata
           /\ \A kind \in DetailKinds :
                ~Miss(kind) => kind \in DOMAIN result.metadata.repodata

-----------------------------------------------------------------------------
(* C11: add_repodata for a unit both stores hold *)

\* the value the store of a kind holds under the key of the last add_repodata
Stored(kind) == disk[dbs[kind]].db[result.db_key]

\* C11: for every unit whose normalized key was written to both the filelists
\* store and the other store, add_repodata returns a bag with exactly three raw
\* fragments: the primary fragment it was given and, for each of the two
\* kinds, the value stored under the key of the unit, together with the
\* payload parsed from that value.
C11_AssembleAttachesAll ==
    (/\ result.op = "add_repodata"
     /\ DetailKinds \subseteq DOMAIN dbs
     /\ \A kind \in DetailKinds : ~Miss(kind))
        => /\ result.outcome = "ok"
           /\ DOMAIN result.metadata.repodata = DetailKinds \cup {"primary"}
           /\ result.metadata.repodata["primary"] = result.raw_xml
           /\ \A kind \in DetailKinds : result.metadata.repodata[kind] = Stored(kind)
           /\ result.metadata.files
                = <<"filelists-items", Stored(filelists_METADATA_FILE_NAME)[2]>>
           /\ result.metadata.changelog
                = <<"other-items", Stored(other_METADATA_FILE_NAME)[2]>>

\* add_repodata attached the three fragments of package b1 and its payloads
C11_Witness ==
    /\ result.op = "add_repodata" /\ result.outcome = "ok"
    /\ result.raw_xml = <<"primary", "b1">>
    /\ result.metadata.repodata["primary"] = <<"primary", "b1">>
    /\ result.metadata.repodata["filelists"] = <<"filelists", "b1">>
    /\ result.metadata.repodata["other"] = <<"other", "b1">>
    /\ result.metadata.files = <<"filelists-items", "b1">>

-----------------------------------------------------------------------------
(* C12, C13: parse_repomd *)

\* the repomd.xml in the destination directory
Descriptor == disk[path_join(dst_dir, REPOMD_FILE_NAME)].doc

\* the document is not well-formed, or one of its data entries lacks the type
\* attribute or the href of a location
BadDocument(doc) ==
    \/ doc.syntax_error # None
    \/ \E i \in 1..Len(doc.data) :
          \/ doc.data[i].type = None
          \/ ~doc.data[i].location
          \/ doc.data[i].href = NoPath

\* C12: parse_repomd fails, and adds no entry to the descriptor, when the
\* document is not well-formed or when a data entry lacks its type attribute
\* or its location reference (href).
C12_BadDocumentRejected ==
    [][ (result'.op = "parse_repomd" /\ DescriptorFetched /\ BadDocument(Descriptor))
            => (result'.outcome # "ok" /\ metadata' = metadata)
      ]_vars

\* str(n) of a size, as a document states it
str(n) == CASE n = 0 -> "0" [] n = 1 -> "1" [] n = 10 -> "10" [] OTHER -> "?"

\* the (kind, path, checksum, size) tuples of a document, sizes as texts
DocTuples(doc) ==
    {<<doc.data[i].type, doc.data[i].href, doc.data[i].checksum, doc.data[i].size>> :
        i \in 1..Len(doc.data)}

\* the (kind, path, checksum, size) tuples of a descriptor, sizes as texts
TextTuples(md) ==
    {<<md[n].name, md[n].relative_path, md[n].checksum,
       IF md[n].size = NoSize THEN None ELSE str(md[n].size)>> : n \in DOMAIN md}

\* the document that states the entries of a descriptor in the order o
serialize(md, o) ==
    [syntax_error |-> None, revision |-> None,
     data |-> [i \in 1..Len(o) |->
                 DataElement(md[o[i]].name, md[o[i]].relative_path,
                             md[o[i]].checksum.algorithm, md[o[i]].checksum.hex_digest,
                             IF md[o[i]].size = NoSize THEN None ELSE str(md[o[i]].size))]]

\* the document has one data entry per kind
OnePerKind(doc) ==
    \A i, j \in 1..Len(doc.data) : doc.data[i].type = doc.data[j].type => i = j

\* parse_repomd read a well-formed document with one entry per kind
ParsedSound ==
    /\ result.op = "parse_repomd" /\ result.outcome = "ok"
    /\ ~BadDocument(Descriptor) /\ OnePerKind(Descriptor)

\* C13: parsing a well-formed document with one data entry per kind gives a
\* descriptor with exactly the (kind, path, checksum, size) tuples of the
\* document, absent checksums and sizes staying absent, and parsing the
\* serialized form of that descriptor, its entries in any order, gives the
\* same tuples again.
C13_ParseRoundTrip ==
    ParsedSound =>
        /\ TextTuples(metadata) = DocTuples(Descriptor)
        /\ \A o \in Orders(DOMAIN metadata) :
              TextTuples(ParseData(serialize(metadata, o).data, EmptyMap).metadata)
                = TextTuples(metadata)

\* a document whose entry states a size of 10 and no checksum was parsed
C13_Witness ==
    /\ ParsedSound
    /\ \E n \in DOMAIN metadata :
          /\ metadata[n].checksum = [algorithm |-> None, hex_digest |-> None]
          /\ metadata[n].size = 10
          /\ metadata[n].relative_path = PRIMARY_PATH

-----------------------------------------------------------------------------
(* C14: the batch of download_metadata_files *)

\* the requests of a batch for the relative path of entry n
RequestsFor(batch, n) == {r \in batch : r.path = metadata[n].relative_path}

\* C14: download_metadata_files calls the fetcher exactly once, also when
\* requests of the batch fail, and the batch holds exactly one request for
\* each entry whose relative path does not contain 'sqlite' and none for an
\* entry whose path contains it.
C14_OneBatchNoSidecar ==
    (result.op = "download_metadata_files" /\ result.outcome = "ok") =>
        /\ Len(result.batches) = 1
        /\ \A n \in DOMAIN metadata :
              Cardinality(RequestsFor(result.batches[1], n))
                = IF find_sqlite(metadata[n].relative_path) THEN 0 ELSE 1
        /\ \A r \in result.batches[1] :
              \E n \in DOMAIN metadata :
                  r = DownloadRequest(metadata[n].relative_path, Dst(metadata[n]))

\* a descriptor that lists a sqlite file next to three others was fetched in
\* one batch of three requests, one of which failed
C14_Witness ==
    /\ result.op = "download_metadata_files" /\ result.outcome = "ok"
    /\ \E n \in DOMAIN metadata : metadata[n].relative_path = SQLITE_PATH
    /\ Len(result.batches) = 1
    /\ Cardinality(result.batches[1]) = 3
    /\ result.failed # {}

-----------------------------------------------------------------------------
(* C15: get_group_file_handle *)

\* the entry was requested by download_metadata_files
Requested(name) == name \in DOMAIN metadata /\ metadata[name].local_path # None

GroupAsked == result.op = "get_group_file_handle"

Returned(name) == result.outcome = "ok" /\ result.name = name

\* C15, as stated: get_group_file_handle returns the compressed group file
\* whenever the descriptor lists both group_gz and group, returns the
\* uncompressed group file only when no acquired group_gz entry exists, and
\* returns nothing when neither is listed.
C15_CompressedWheneverListed ==
    GroupAsked =>
        /\ {"group_gz", "group"} \subseteq DOMAIN metadata => Returned("group_gz")
        /\ Returned("group") => ~Acquired("group_gz")
        /\ {"group_gz", "group"} \cap DOMAIN metadata = {} => Returned(None)

\* C15, amended: get_group_file_handle returns the compressed group file
\* whenever the group_gz entry has a local_path and its file is in the
\* destination directory; it returns the uncompressed group file only when
\* no group_gz entry has a local_path; it returns nothing when neither
\* entry has a local_path, as for a descriptor that lists both before
\* download_metadata_files ran; and when group_gz has a local_path but no
\* file it raises IOError and does not fall back to group.
C15_CompressedWhenAcquired ==
    GroupAsked =>
        /\ Acquired("group_gz")
             => (Returned("group_gz") /\ result.content = disk[metadata["group_gz"].local_path].content)
        /\ (Requested("group_gz") /\ ~Acquired("group_gz"))
             => (result.outcome = "IOError" /\ result.name = None)
        /\ Returned("group") => (~Requested("group_gz") /\ Acquired("group"))
        /\ (~Requested("group_gz") /\ ~Requested("group")) => Returned(None)

\* with both group files acquired the compressed one was returned
C15_Witness ==
    /\ GroupAsked
    /\ Acquired("group") /\ Acquired("group_gz")
    /\ Returned("group_gz") /\ result.content = "comps.gz"

-----------------------------------------------------------------------------
(* C16: the Failed state *)

\* the fetcher reported a failure in this session, or the last call was a
\* parse_repomd that raised on the document
SessionFailed ==
    \/ failed_reports # <<>>
    \/ /\ result.op = "parse_repomd"
       /\ result.outcome \in {"ValueError", "ParseError", "KeyError"}

\* C16: once a parse error or a fetch failure has occurred the session is
\* Failed, and no later stage takes effect: acquisition and indexing change
\* neither the files, the descriptor nor the stores, and verification and
\* assembly do not succeed.
C16_FailedIsTerminal ==
    [][ SessionFailed =>
          /\ result'.op \in {"download_metadata_files", "generate_dbs"}
                => UNCHANGED <<disk, metadata, dbs>>
          /\ result'.op \in {"verify_metadata_files", "add_repodata"}
                => result'.outcome # "ok"
      ]_vars

-----------------------------------------------------------------------------
(* C17: two sessions with different destination directories *)

\* the names of the files a session keeps
FileNames ==
    {REPOMD_FILE_NAME, "primary.xml.gz", "filelists.xml.gz", "other.xml.gz",
     "comps.xml", "comps.xml.gz", "primary.sqlite.bz2", "filelists.db", "other.db"}

\* the paths directly under the destination directory of a session
Under(session) == {"/sync/" \o session \o "/" \o name : name \in FileNames}

\* the paths a step creates or rewrites
Written == {p \in DOMAIN disk' : p \notin DOMAIN disk \/ disk'[p] # disk[p]}

\* the fields of the session that has the turn
Fields ==
    [failed_reports |-> failed_reports, revision |-> revision,
     metadata |-> metadata, dbs |-> dbs]

\* C17: for two sessions with different destination directories, under
\* every interleaving of their stages, every file a session writes lies under
\* its own destination directory, and no stage of one session changes the
\* descriptor, the acquired files or the index stores of the other: the files
\* under the other directory and the fields of the other session stay as
\* they are, and a change of turn changes nothing but the turn.
C17_SessionsIsolated ==
    [][ /\ Written \subseteq Under(cur)
        /\ DOMAIN disk \subseteq DOMAIN disk'
        /\ cur' = cur => peer' = peer
        /\ cur' # cur => (peer' = Fields /\ Fields' = peer /\ disk' = disk)
      ]_vars

\* both sessions fetched the descriptor and the filelists file and built the
\* filelists store, each under its own directory
C17_Witness ==
    /\ cur = "b"
    /\ result.op = "generate_dbs"
    /\ \A session \in Sessions :
          {"/sync/" \o session \o "/" \o name :
              name \in {REPOMD_FILE_NAME, "filelists.xml.gz", "filelists.db"}}
            \subseteq DOMAIN disk
    /\ dbs = ("filelists" :> "/sync/b/filelists.db")
    /\ peer.dbs = ("filelists" :> "/sync/a/filelists.db")
    /\ disk["/sync/a/filelists.db"].db # EmptyMap
    /\ disk["/sync/b/filelists.db"].db # EmptyMap

-----------------------------------------------------------------------------
(* C18: what generate_dbs reads *)

\* the generate_dbs of this step opened the detail file of the kind and read
\* its records: the pass of the kind did not fail
ReadByBuild(kind) ==
    /\ result'.op = "generate_dbs"
    /\ IF kind = filelists_METADATA_FILE_NAME
       THEN result'.failed_at # filelists_METADATA_FILE_NAME
       ELSE result'.failed_at = None

\* C18: generate_dbs reads no detail file whose requested verification
\* failed: when verify_metadata_files has just raised on the filelists or the
\* other entry, a generate_dbs that follows does not read the file of that
\* entry.
C18_BuildOnlyFromVerified ==
    [][ (/\ result.op = "verify_metadata_files"
         /\ result.outcome # "ok"
         /\ result.entry \in DetailKinds)
            => ~ReadByBuild(result.entry)
      ]_vars

-----------------------------------------------------------------------------
(* C19: every build starts from an empty store *)

\* the last call was a generate_dbs whose pass over the kind ended well
Built(kind) ==
    /\ result.op = "generate_dbs"
    /\ IF kind = filelists_METADATA_FILE_NAME
       THEN result.failed_at # filelists_METADATA_FILE_NAME
       ELSE result.failed_at = None

\* the records of the detail file of a kind that is in the destination
\* directory now
Records(kind) ==
    LET packages == disk[metadata[kind].local_path].packages
    IN  {packages[i] : i \in 1..Len(packages)}

\* C19: each build starts from an empty store: after the build of a kind the
\* keys of its store are exactly the normalized keys of the records of the
\* current detail file, each value is the raw fragment of a record with that
\* key, and no entry of an earlier build of the store is left.
C19_BuildStartsEmpty ==
    \A kind \in DetailKinds :
        Built(kind) =>
            LET db == disk[dbs[kind]].db
            IN  /\ dbs[kind] = path_join(dst_dir, kind \o ".db")
                /\ DOMAIN db = {Normalized(UnitKeyOf(pkgid)) : pkgid \in Records(kind)}
                /\ \A db_key \in DOMAIN db :
                      \E pkgid \in Records(kind) :
                          /\ Normalized(UnitKeyOf(pkgid)) = db_key
                          /\ db[db_key] = <<kind, pkgid>>

\* a store that held the key of package a was built again from a detail file
\* without that package, and the key is gone
C19_Witness ==
    LET path == path_join(dst_dir, "filelists.db")
        a_key == "arch:x86_64::name:a::release:1::version:1"
    IN  /\ Built(filelists_METADATA_FILE_NAME)
        /\ path \in DOMAIN result.overwritten
        /\ a_key \in DOMAIN result.overwritten[path]
        /\ DOMAIN disk[path].db = {"arch:x86_64::name:b::release:1::version:1"}

-----------------------------------------------------------------------------
(* C20: writers and readers of the index stores *)

\* the store handles the call of this step opened, as it left them
HandlesOpened == {result'.handles[i] : i \in 1..Len(result'.handles)}

\* C20: an index store has one writer, and only during its build:
\* generate_dbs opens each store once, for writing, and changes no store it
\* did not open; add_repodata opens stores read-only and leaves the contents
\* of every store as they are, however often it is called; and every store
\* handle either of them opens is closed when the call ends, with or without
\* an error.
C20_OneWriterReadersClose ==
    [][ /\ result'.op = "add_repodata" =>
               /\ \A h \in HandlesOpened : h.flag = "r" /\ h.closed
               /\ Stores(disk') = Stores(disk)
               /\ \A path \in Stores(disk) : disk'[path] = disk[path]
        /\ result'.op = "generate_dbs" =>
               /\ \A h \in HandlesOpened : h.flag = "nf" /\ h.closed
               /\ \A i, j \in 1..Len(result'.handles) :
                     result'.handles[i].path = result'.handles[j].path => i = j
               /\ Written \subseteq {h.path : h \in HandlesOpened}
      ]_vars

\* add_repodata found the key in the filelists store and missed it in the
\* other store: it raised, and both handles it had opened are closed
C20_Witness ==
    /\ result.op = "add_repodata" /\ result.outcome = "KeyError"
    /\ Len(result.handles) = 2
    /\ result.handles[2] = [path |-> dbs["other"], flag |-> "r", closed |-> TRUE]
    /\ result.db_key \in DOMAIN disk[dbs["filelists"]].db
    /\ result.db_key \notin DOMAIN disk[dbs["other"]].db

-----------------------------------------------------------------------------
(* C21: cancellation *)

\* the step issues the fetch batch of the metadata files
FetchBatchIssued ==
    /\ result'.op = "download_metadata_files"
    /\ result'.batches # <<>>

\* the step starts an indexing pass: generate_dbs begins with the pass of
\* the filelists kind
IndexingPassStarted == result'.op = "generate_dbs"

\* C21: cancellation is checked before the fetch batch of the metadata files
\* is issued and at the start of the indexing pass of each detail kind: once
\* cancellation has been requested, no step issues a fetch batch and no step
\* starts an indexing pass.
C21_CancelStopsWork ==
    [][ cancelled => ~FetchBatchIssued /\ ~IndexingPassStarted ]_vars

-----------------------------------------------------------------------------
(* C22: verification needs every entry of the descriptor *)

\* the entries of the descriptor that name a sqlite file
SqliteEntries ==
    {n \in DOMAIN metadata :
        metadata[n].relative_path # NoPath /\ find_sqlite(metadata[n].relative_path)}

\* the file of the entry is in the destination directory as the repository
\* serves it
Intact(n) ==
    /\ metadata[n].local_path \in DOMAIN disk
    /\ disk[metadata[n].local_path] = repo.files[metadata[n].relative_path]

\* C22: verify_metadata_files returns normally only if every entry of the
\* descriptor has a local_path, a declared size and a declared checksum
\* algorithm; a failure for a missing local_path is raised at an entry that
\* has none; and while the descriptor has a sqlite entry, which acquisition
\* skips, verification fails.
C22_VerifyNeedsEveryEntry ==
    result.op = "verify_metadata_files" =>
        /\ result.outcome = "ok" =>
               \A n \in DOMAIN metadata :
                   /\ metadata[n].local_path # None
                   /\ metadata[n].size # NoSize
                   /\ metadata[n].checksum.algorithm # None
        /\ result.message = "has not been downloaded" =>
               metadata[result.entry].local_path = None
        /\ SqliteEntries # {} => result.outcome # "ok"

\* the descriptor lists primary, a sqlite sidecar, filelists and other;
\* every file that was asked for is in place and intact, and verification
\* raises on the sidecar entry
C22_Witness ==
    /\ result.op = "verify_metadata_files"
    /\ DOMAIN metadata = {"primary", "primary_db", "filelists", "other"}
    /\ SqliteEntries = {"primary_db"}
    /\ \A n \in DOMAIN metadata \ SqliteEntries : Intact(n)
    /\ result.outcome = "RuntimeError"
    /\ result.message = "has not been downloaded"
    /\ result.entry = "primary_db"

-----------------------------------------------------------------------------
(* C23: a kind is recorded in dbs after its store is complete *)

\* the store of the kind, by the path generate_dbs gives it
DbFilename(kind) == path_join(dst_dir, kind \o ".db")

\* the store at the path holds every record of the detail file of the kind
\* that is in the destination directory, and nothing else
Complete(kind, d) ==
    /\ DbFilename(kind) \in Stores(d)
    /\ DOMAIN d[DbFilename(kind)].db = {Normalized(UnitKeyOf(pkgid)) : pkgid \in Records(kind)}

\* C23: generate_dbs records a kind in the dbs map only after the store of
\* the kind is written and closed.  After a call, a kind whose pass ended
\* well is recorded with a closed, complete store; a kind whose pass failed
\* or was not reached is recorded as it was before the call; and the store
\* of a kind after the one that failed is as it was before the call, and
\* was not opened.
C23_RecordedAfterComplete ==
    [][ result'.op = "generate_dbs" =>
          \A kind \in DetailKinds :
              IF ReadByBuild(kind)
              THEN /\ kind \in DOMAIN dbs' /\ dbs'[kind] = DbFilename(kind)
                   /\ Complete(kind, disk')
                   /\ \E h \in HandlesOpened : h.path = DbFilename(kind) /\ h.closed
              ELSE /\ kind \in DOMAIN dbs' <=> kind \in DOMAIN dbs
                   /\ kind \in DOMAIN dbs => dbs'[kind] = dbs[kind]
                   /\ result'.failed_at # kind =>
                         /\ DbFilename(kind) \in DOMAIN disk' <=> DbFilename(kind) \in DOMAIN disk
                         /\ DbFilename(kind) \in DOMAIN disk =>
                               disk'[DbFilename(kind)] = disk[DbFilename(kind)]
                         /\ \A h \in HandlesOpened : h.path # DbFilename(kind)
      ]_vars

\* the other file breaks off after its first record: the filelists store is
\* complete and recorded, the other store holds the one record written
\* before the failure and is not recorded
C23_Witness ==
    /\ result.op = "generate_dbs"
    /\ result.outcome = "SyntaxError"
    /\ result.failed_at = other_METADATA_FILE_NAME
    /\ DOMAIN dbs = {filelists_METADATA_FILE_NAME}
    /\ Complete(filelists_METADATA_FILE_NAME, disk)
    /\ DOMAIN disk[DbFilename(other_METADATA_FILE_NAME)].db =
          {"arch:x86_64::name:a::release:1::version:1"}

-----------------------------------------------------------------------------
(* C24: import_units without a recursive flag *)

\* the flag is set in the configuration of the last call
FlagSet(key) == key \in DOMAIN result.config /\ result.config[key] = TRUE

\* additional_repos is configured in the last call: it names a repository
AdditionalConfigured ==
    /\ CONFIG_ADDITIONAL_REPOS \in DOMAIN result.config
    /\ result.config[CONFIG_ADDITIONAL_REPOS] # EmptyMap

\* C24: import_units with additional_repos configured and neither recursive
\* flag set fails with ValueError before any association is made; with no
\* recursive flag and no additional_repos it makes exactly one association,
\* of the given units from the source to the destination repository; in
\* both cases the dependency solver is not used.
C24_AdditionalNeedsRecursive ==
    (/\ result.op = "import_units"
     /\ ~FlagSet(CONFIG_RECURSIVE)
     /\ ~FlagSet(CONFIG_RECURSIVE_CONSERVATIVE)) =>
        /\ result.solver = <<>>
        /\ IF AdditionalConfigured
           THEN /\ result.outcome = "ValueError"
                /\ result.associations = <<>>
           ELSE /\ result.outcome = "ok"
                /\ result.associations =
                     <<[source |-> source_repo, dest |-> dest_repo, units |-> result.units]>>

\* additional_repos names a repository, recursive is False and
\* recursive_conservative is absent: the call raised ValueError and made no
\* association
C24_Witness ==
    /\ result.op = "import_units"
    /\ result.config = (CONFIG_RECURSIVE :> FALSE) @@
                       (CONFIG_ADDITIONAL_REPOS :> ("src2" :> "dst2"))
    /\ result.units = {"rpm1"}
    /\ result.outcome = "ValueError"
    /\ result.associations = <<>>

====
